---- MODULE Spec2Model ----
(***************************************************************************)
(* Model of Window_Pin (src/main.py): a Tk application that arms a         *)
(* low-level mouse hook on a background thread, pins the clicked window    *)
(* topmost with a push-pin marker, and unpins the most recent one.         *)
(*                                                                         *)
(* Two execution contexts are modelled: the UI thread (Tk main loop, the   *)
(* button commands, the after-queue, the atexit handler) and the hook      *)
(* thread (run_mouse_hook).  The handlers' bodies are operators over a     *)
(* record of the controller's object state, so that the Python exceptions  *)
(* they raise and catch are computed as the interpreter computes them.     *)
(***************************************************************************)
EXTENDS Integers, Sequences, FiniteSets, TLC

(* ---------------- bounds of the model ---------------- *)

\* stop_mouse_hook calls after which pin mode is not started again
MaxEpoch == 2
\* pin_window callbacks the Tk after-queue holds at once
MaxQueue == 2

(* ---------------- windows of the desktop ---------------- *)

\* GetAncestor(...) == 0: no window under the cursor
Null == "null"
\* self.tk_window.winfo_id()
Own == "own"
\* other applications' top-level windows
Windows == {"A", "B", "U"}

HWND_TOPMOST == "HWND_TOPMOST"
HWND_NOTOPMOST == "HWND_NOTOPMOST"

\* win32gui.GetWindowText: "" for a handle that is no window any more
GetWindowText(h, al) ==
    IF h \notin al THEN <<>>
    ELSE IF h = "A" THEN <<"N", "p">>
    ELSE IF h = "B" THEN <<" ", "E", " ">>
    ELSE <<" ", " ">>

RECURSIVE lstrip(_)
lstrip(t) == IF t # <<>> /\ Head(t) = " " THEN lstrip(Tail(t)) ELSE t

RECURSIVE rstrip(_)
rstrip(t) ==
    IF t # <<>> /\ t[Len(t)] = " " THEN rstrip(SubSeq(t, 1, Len(t) - 1)) ELSE t

\* str.strip()
strip(t) == rstrip(lstrip(t))

is_valid_window(h, al) ==
    LET selected_window_title == GetWindowText(h, al)
    IN  IF selected_window_title # <<>> /\ strip(selected_window_title) # <<>>
        THEN TRUE ELSE FALSE

(* ---------------- Python call binding ---------------- *)

\* window_z_index without its decorator: an ordinary method
window_z_index_plain_method == FALSE

\* window_z_index carries @staticmethod: no receiver is bound on a call
window_z_index_static == TRUE
window_z_index_params == <<"self", "window_handle", "is_topmost">>
remove_pin_params == <<"self", "pushpin_root_window_handle">>

\* a call binds when receiver + positional arguments fill the parameters;
\* otherwise Python raises TypeError
Bind(params, receiver, args) ==
    LET full == receiver \o args
    IN  [ok |-> Len(full) = Len(params), argv |-> full]

(* ---------------- the controller's object state ---------------- *)
(* S = [pw  : pinned_windows (list of handles),                            *)
(*      mk  : pushpin_root_window_handle (dict handle -> PushPinIcon),     *)
(*      tm  : the windows SetWindowPos has left in the topmost band,       *)
(*      msg : the messagebox the handler shows ("none": it shows none),    *)
(*      z   : window_z_index calls the handler makes]                      *)

IsMarkerWindow(h) == h = "pushpin_window"

\* win32gui.SetWindowPos(handle, band, 0,0,0,0, SWP_NOMOVE|SWP_NOSIZE);
\* pywin32 raises when the handle is not a window
SetWindowPos(h, band, S, al) ==
    IF IsMarkerWindow(h) THEN [raised |-> FALSE, s |-> S]
    ELSE IF h \notin al THEN [raised |-> TRUE, s |-> S]
    ELSE [raised |-> FALSE,
          s |-> [S EXCEPT !.tm = IF band = HWND_TOPMOST
                                 THEN @ \cup {h} ELSE @ \ {h}]]

\* a call  <receiver>.window_z_index(args...)
window_z_index(receiver, args, S, al) ==
    LET b == Bind(window_z_index_params,
                  IF window_z_index_static THEN <<>> ELSE receiver, args)
        s1 == [S EXCEPT !.z = @ + 1]
    IN  IF ~b.ok THEN [raised |-> TRUE, s |-> s1]
        ELSE SetWindowPos(b.argv[2], b.argv[3], s1, al)

\* a position sync whose except clause schedules the next tick instead of
\* destroying the overlay
update_pushpin_position_keeps_ticking(h, S, al) ==
    [s |-> S, marker |-> [destroyed |-> FALSE, scheduled |-> TRUE]]

\* PushPinIcon.update_pushpin_position, the first call made by __init__
update_pushpin_position(h, S, al) ==
    IF h \notin al
    THEN [s |-> S, marker |-> [destroyed |-> TRUE, scheduled |-> FALSE]]
    ELSE LET r == window_z_index(<<>>, <<"pushpin_window", HWND_TOPMOST>>, S, al)
         IN  IF r.raised
             THEN [s |-> r.s, marker |-> [destroyed |-> TRUE, scheduled |-> FALSE]]
             ELSE [s |-> r.s, marker |-> [destroyed |-> FALSE, scheduled |-> TRUE]]

\* PushPinIcon(h): Image.open("pushpin.png") raises when the file is missing
PushPinIcon(h, imageOk, S, al) ==
    IF ~imageOk
    THEN [raised |-> TRUE, s |-> S,
          marker |-> [destroyed |-> FALSE, scheduled |-> FALSE]]
    ELSE LET u == update_pushpin_position(h, S, al)
         IN  [raised |-> FALSE, s |-> u.s, marker |-> u.marker]

DictSet(mk, h, m) == [x \in DOMAIN mk \cup {h} |-> IF x = h THEN m ELSE mk[x]]
DictDel(mk, h) == [x \in DOMAIN mk \ {h} |-> mk[x]]

\* pin_window without its guard
returns_at_guard_never(pinning) == FALSE

\* "if not self.is_pinning: return" at the top of pin_window
returns_at_guard(pinning) == ~pinning

\* the try block of pin_window, with its except clause
pin_window_try(root, imageOk, S, al) ==
    IF is_valid_window(root, al)
    THEN LET r1 == window_z_index(<<"self">>, <<root, HWND_TOPMOST>>, S, al)
         IN  IF r1.raised THEN [r1.s EXCEPT !.msg = "error_pin"]
             ELSE LET s2 == [r1.s EXCEPT !.pw = Append(@, root)]
                      r3 == PushPinIcon(root, imageOk, s2, al)
                  IN  IF r3.raised THEN [r3.s EXCEPT !.msg = "error_pin"]
                      ELSE [r3.s EXCEPT !.mk = DictSet(@, root, r3.marker)]
    ELSE [S EXCEPT !.msg = "warn_no_valid_window"]

\* pin_window without the truth test of root_window_handle
pin_window_body_no_null_test(root, imageOk, S, al) ==
    IF root # Own
    THEN pin_window_try(root, imageOk, S, al)
    ELSE [S EXCEPT !.msg = "warn_select_other"]

\* the part of pin_window after stop_pin_process
pin_window_body(root, imageOk, S, al) ==
    IF root # Null /\ root # Own
    THEN pin_window_try(root, imageOk, S, al)
    ELSE [S EXCEPT !.msg = "warn_select_other"]

remove_pin(h, S, al) ==
    IF h \in DOMAIN S.mk
    THEN window_z_index(<<"self">>, <<h, HWND_NOTOPMOST>>,
                        [S EXCEPT !.mk = DictDel(@, h)], al)
    ELSE [raised |-> FALSE, s |-> S]

\* the try block of unpin_window, with its except clause; list.pop()
\* raises IndexError on an empty list
unpin_window_try(S, al) ==
    IF S.pw = <<>> THEN [S EXCEPT !.msg = "error_unpin"]
    ELSE
         LET window_handle == S.pw[Len(S.pw)]
             s1 == [S EXCEPT !.pw = SubSeq(@, 1, Len(@) - 1)]
             b == Bind(remove_pin_params, <<"self">>, <<"self", window_handle>>)
         IN  IF ~b.ok THEN [s1 EXCEPT !.msg = "error_unpin"]
             ELSE LET r2 == remove_pin(window_handle, s1, al)
                  IN  IF r2.raised THEN [r2.s EXCEPT !.msg = "error_unpin"]
                      ELSE LET r3 == window_z_index(<<"self">>,
                                        <<window_handle, HWND_NOTOPMOST>>, r2.s, al)
                           IN  IF r3.raised THEN [r3.s EXCEPT !.msg = "error_unpin"]
                               ELSE r3.s

\* unpin_window without the test of self.pinned_windows
unpin_window_body_no_empty_test(S, al) == unpin_window_try(S, al)

unpin_window_body(S, al) ==
    IF S.pw # <<>>
    THEN unpin_window_try(S, al)
    ELSE [S EXCEPT !.msg = "warn_none_pinned"]

\* the loop of cleanup over self.pinned_windows, from index i on
RECURSIVE cleanup_from(_, _, _)
cleanup_from(i, S, al) ==
    IF i > Len(S.pw) THEN S
    ELSE LET window_handle == S.pw[i]
             r1 == remove_pin(window_handle, S, al)
         IN  IF r1.raised
             THEN cleanup_from(i + 1, [r1.s EXCEPT !.msg = "error_cleanup"], al)
             ELSE LET r2 == window_z_index(<<"self">>,
                               <<window_handle, HWND_NOTOPMOST>>, r1.s, al)
                  IN  cleanup_from(i + 1,
                          IF r2.raised THEN [r2.s EXCEPT !.msg = "error_cleanup"]
                          ELSE r2.s, al)

(* ---------------- state ---------------- *)

VARIABLES
    is_pinning,                  \* self.is_pinning
    hook,                        \* self.hook: "None", "NULL" (0) or "HHOOK"
    hookpc,                      \* self.hook_thread: "none" (no thread yet), "start",
                                 \* "installed", "loop", "after", "done"
    ret,                         \* the value SetWindowsHookExA returned, not yet stored
    os_hook,                     \* a WH_MOUSE_LL hook of this process is installed
    quit_posted,                 \* WM_QUIT is in the hook thread's message queue
    click_epoch,                 \* epoch of the click the hook callback is handling
    after_queue,                 \* Tk's queue of after(0, pin_window) callbacks, each
                                 \* tagged with the epoch of its click
    uipc,                        \* UI thread: "mainloop", "join", "shutdown", "exited"
    cur,                         \* the handler blocked in hook_thread.join()
    pinned_windows,              \* self.pinned_windows
    pushpin_root_window_handle,  \* self.pushpin_root_window_handle
    topmost,                     \* windows this program's SetWindowPos calls have
                                 \* left in the topmost band
    alive,                       \* windows of other applications that still exist
    msg,                         \* the messagebox shown by the last pin_window,
                                 \* unpin_window or cleanup ("none": it showed none)
    epoch,                       \* history: stop_mouse_hook calls that have returned
    lastOp,                      \* history: the handler that completed last
    pin_history,                 \* history: the pinnable windows pin_window was run on
                                 \* and that no unpin_window has answered yet
    attempts                     \* history: pin_window calls that passed the
                                 \* is_pinning guard since the last start_pin_process

vars == <<is_pinning, hook, hookpc, ret, os_hook, quit_posted, click_epoch,
          after_queue, uipc, cur, pinned_windows, pushpin_root_window_handle,
          topmost, alive, msg, epoch, lastOp, pin_history, attempts>>

hookVars == <<hook, hookpc, ret, os_hook, quit_posted, click_epoch>>
objVars == <<pinned_windows, pushpin_root_window_handle, topmost, msg>>

EmptyDict == [x \in {} |-> [destroyed |-> FALSE, scheduled |-> FALSE]]

NoOp == [op |-> "none", root |-> Null, image |-> TRUE, stale |-> FALSE, z |-> 0,
         pre |-> <<>>, hist |-> <<>>]

Obj == [pw |-> pinned_windows, mk |-> pushpin_root_window_handle,
        tm |-> topmost, msg |-> "none", z |-> 0]

SetObj(S) ==
    /\ pinned_windows' = S.pw
    /\ pushpin_root_window_handle' = S.mk
    /\ topmost' = S.tm
    /\ msg' = S.msg

\* threading.Thread.is_alive()
is_alive == hookpc \notin {"none", "done"}

\* a window pin_window accepts: not null, not the application's, with a title
Pinnable(h) == h # Null /\ h # Own /\ is_valid_window(h, alive)

\* pin_history after pin_window has run on h: h is pinned from then on when
\* it is pinnable, its marker's image can be loaded and it is not pinned yet
HistPush(h, imageOk) ==
    IF Pinnable(h) /\ imageOk /\ h \notin {pin_history[i] : i \in DOMAIN pin_history}
    THEN Append(pin_history, h) ELSE pin_history

\* PinWindow.__init__
Init ==
    /\ is_pinning = FALSE
    /\ hook = "None"
    /\ hookpc = "none"
    /\ ret = "None"
    /\ os_hook = FALSE
    /\ quit_posted = FALSE
    /\ click_epoch = 0
    /\ after_queue = <<>>
    /\ uipc = "mainloop"
    /\ cur = [op |-> "none", stale |-> FALSE]
    /\ pinned_windows = <<>>
    /\ pushpin_root_window_handle = EmptyDict
    /\ topmost = {}
    /\ alive = Windows
    /\ msg = "none"
    /\ epoch = 0
    /\ lastOp = NoOp
    /\ pin_history = <<>>
    /\ attempts = 0

(* ---------------- the hook thread: run_mouse_hook ---------------- *)

\* SetWindowsHookExA(14, pointer, None, 0): a handle, or NULL on failure
SetWindowsHookExA ==
    /\ hookpc = "start"
    /\ \E ok \in BOOLEAN :
         /\ ret' = IF ok THEN "HHOOK" ELSE "NULL"
         /\ os_hook' = ok
    /\ hookpc' = "installed"
    /\ UNCHANGED <<is_pinning, hook, quit_posted, click_epoch, after_queue, uipc,
                   cur, objVars, alive, epoch, lastOp, pin_history, attempts>>

\* self.hook = <returned value>, then the first GetMessageW
StoreHook ==
    /\ hookpc = "installed"
    /\ hook' = ret
    /\ hookpc' = "loop"
    /\ UNCHANGED <<is_pinning, ret, os_hook, quit_posted, click_epoch, after_queue,
                   uipc, cur, objVars, alive, epoch, lastOp, pin_history, attempts>>

\* a handler that calls pin_window itself, on the hook thread, instead of
\* scheduling it
low_level_mouse_handler_calls_pin_window ==
    /\ hookpc = "loop"
    /\ os_hook
    /\ uipc \in {"mainloop", "join"}
    /\ is_pinning
    /\ is_pinning' = FALSE
    /\ \E root \in alive \cup {Own, Null}, imageOk \in BOOLEAN :
         LET S == pin_window_body(root, imageOk, Obj, alive)
         IN  /\ SetObj(S)
             /\ lastOp' = [op |-> "pin_window", root |-> root, image |-> imageOk,
                           stale |-> FALSE, z |-> S.z, pre |-> pinned_windows,
                           hist |-> pin_history]
    /\ UNCHANGED <<hook, hookpc, ret, os_hook, quit_posted, click_epoch,
                   after_queue, uipc, cur, alive, epoch, pin_history, attempts>>

\* a WM_LBUTTONDOWN reaches the hook while the thread is in GetMessageW: the
\* callback calls self.tk_window.after(0, self.pin_window), a Tk call made
\* from a thread other than the interpreter's, which waits for the UI thread
low_level_mouse_handler ==
    /\ hookpc = "loop"
    /\ os_hook
    /\ uipc \in {"mainloop", "join"}
    /\ Len(after_queue) < MaxQueue
    /\ hookpc' = "after"
    /\ click_epoch' = epoch
    /\ UNCHANGED <<is_pinning, hook, ret, os_hook, quit_posted, after_queue, uipc,
                   cur, objVars, alive, epoch, lastOp, pin_history, attempts>>

\* the UI thread, in its main loop, serves the hook thread's after() call:
\* pin_window is queued and the callback returns through CallNextHookEx
ServeAfter ==
    /\ uipc = "mainloop"
    /\ hookpc = "after"
    /\ after_queue' = Append(after_queue, click_epoch)
    /\ hookpc' = "loop"
    /\ UNCHANGED <<is_pinning, hook, ret, os_hook, quit_posted, click_epoch, uipc,
                   cur, objVars, alive, epoch, lastOp, pin_history, attempts>>

\* GetMessageW retrieves WM_QUIT and returns 0: UnhookWindowsHookEx(self.hook),
\* and the thread ends
HookThreadQuit ==
    /\ hookpc = "loop"
    /\ quit_posted
    /\ quit_posted' = FALSE
    /\ os_hook' = FALSE
    /\ hookpc' = "done"
    /\ UNCHANGED <<is_pinning, hook, ret, click_epoch, after_queue, uipc, cur,
                   objVars, alive, epoch, lastOp, pin_history, attempts>>

(* ---------------- the UI thread ---------------- *)

\* the button command: start_pin_process, or stop_pin_process up to the join
toggle_pin_process ==
    /\ uipc = "mainloop"
    /\ IF ~is_pinning
       THEN /\ epoch < MaxEpoch
            /\ is_pinning' = TRUE
            /\ IF ~is_alive
               THEN /\ hookpc' = "start"
                    /\ quit_posted' = FALSE
               ELSE UNCHANGED <<hookpc, quit_posted>>
            /\ lastOp' = [NoOp EXCEPT !.op = "start_pin_process"]
            /\ attempts' = 0
            /\ UNCHANGED <<uipc, cur, epoch>>
       ELSE /\ is_pinning' = FALSE
            /\ UNCHANGED attempts
            /\ IF hook = "HHOOK"
               THEN /\ quit_posted' = TRUE
                    /\ uipc' = "join"
                    /\ cur' = [op |-> "stop_pin_process", stale |-> FALSE]
                    /\ UNCHANGED <<epoch, lastOp>>
               ELSE /\ epoch' = epoch + 1
                    /\ lastOp' = [NoOp EXCEPT !.op = "stop_pin_process"]
                    /\ UNCHANGED <<quit_posted, uipc, cur>>
            /\ UNCHANGED hookpc
    /\ UNCHANGED <<hook, ret, os_hook, click_epoch, after_queue, objVars, alive,
                   pin_history>>

\* the rest of pin_window once stop_pin_process has returned
PinWindowRest(stale) ==
    \E root \in alive \cup {Own, Null}, imageOk \in BOOLEAN :
        LET S == pin_window_body(root, imageOk, Obj, alive)
        IN  /\ SetObj(S)
            /\ pin_history' = HistPush(root, imageOk)
            /\ lastOp' = [op |-> "pin_window", root |-> root, image |-> imageOk,
                          stale |-> stale,
                          z |-> S.z, pre |-> pinned_windows, hist |-> pin_history]

\* Tk runs a queued pin_window callback
pin_window ==
    /\ uipc = "mainloop"
    /\ after_queue # <<>>
    /\ after_queue' = Tail(after_queue)
    /\ IF returns_at_guard(is_pinning)
       THEN /\ lastOp' = [NoOp EXCEPT !.op = "pin_window_return"]
            /\ UNCHANGED <<is_pinning, quit_posted, uipc, cur, epoch, objVars,
                           pin_history, attempts>>
       ELSE /\ is_pinning' = FALSE
            /\ attempts' = attempts + 1
            /\ IF hook = "HHOOK"
               THEN /\ quit_posted' = TRUE
                    /\ uipc' = "join"
                    /\ cur' = [op |-> "pin_window",
                               stale |-> Head(after_queue) < epoch]
                    /\ UNCHANGED <<epoch, lastOp, objVars, pin_history>>
               ELSE /\ epoch' = epoch + 1
                    /\ PinWindowRest(Head(after_queue) < epoch)
                    /\ UNCHANGED <<quit_posted, uipc, cur>>
    /\ UNCHANGED <<hook, hookpc, ret, os_hook, click_epoch, alive>>

\* self.hook_thread.join() returns: self.hook = None, and the handler goes on
JoinReturns ==
    /\ uipc = "join"
    /\ hookpc = "done"
    /\ hook' = "None"
    /\ epoch' = epoch + 1
    /\ uipc' = "mainloop"
    /\ cur' = [op |-> "none", stale |-> FALSE]
    /\ IF cur.op = "pin_window"
       THEN PinWindowRest(cur.stale)
       ELSE /\ lastOp' = [NoOp EXCEPT !.op = "stop_pin_process"]
            /\ UNCHANGED <<objVars, pin_history>>
    /\ UNCHANGED <<is_pinning, hookpc, ret, os_hook, quit_posted, click_epoch,
                   after_queue, alive, attempts>>

\* the unpin button's command
unpin_window ==
    /\ uipc = "mainloop"
    /\ LET S == unpin_window_body(Obj, alive)
       IN  /\ SetObj(S)
           /\ lastOp' = [op |-> "unpin_window", root |-> Null, image |-> TRUE,
                         stale |-> FALSE,
                         z |-> S.z, pre |-> pinned_windows, hist |-> pin_history]
    /\ pin_history' = IF pin_history = <<>> THEN <<>>
                      ELSE SubSeq(pin_history, 1, Len(pin_history) - 1)
    /\ UNCHANGED <<is_pinning, hookVars, after_queue, uipc, cur, alive, epoch,
                   attempts>>

\* the main window is closed: root.mainloop() returns and the interpreter
\* starts to finalize; callbacks still queued are dropped
MainloopExits ==
    /\ uipc = "mainloop"
    /\ uipc' = "shutdown"
    /\ after_queue' = <<>>
    /\ UNCHANGED <<is_pinning, hookVars, cur, objVars, alive, epoch, lastOp,
                   pin_history, attempts>>

\* the atexit handler; the interpreter runs it once no non-daemon thread
\* (the hook thread) is alive any more
cleanup ==
    /\ uipc = "shutdown"
    /\ ~is_alive
    /\ uipc' = "exited"
    /\ LET S == cleanup_from(1, Obj, alive)
       IN  /\ SetObj(S)
           /\ lastOp' = [op |-> "cleanup", root |-> Null, image |-> TRUE,
                         stale |-> FALSE,
                         z |-> S.z, pre |-> pinned_windows, hist |-> pin_history]
    /\ UNCHANGED <<is_pinning, hookVars, after_queue, cur, alive, epoch,
                   pin_history, attempts>>

(* ---------------- the environment ---------------- *)

\* another application closes one of its windows
WindowCloses ==
    /\ uipc # "exited"
    /\ \E h \in alive : alive' = alive \ {h}
    /\ UNCHANGED <<is_pinning, hookVars, after_queue, uipc, cur, objVars, epoch,
                   lastOp, pin_history, attempts>>

Next ==
    \/ SetWindowsHookExA
    \/ StoreHook
    \/ low_level_mouse_handler
    \/ ServeAfter
    \/ HookThreadQuit
    \/ toggle_pin_process
    \/ pin_window
    \/ JoinReturns
    \/ unpin_window
    \/ MainloopExits
    \/ cleanup
    \/ WindowCloses

Spec == Init /\ [][Next]_vars

(* ---------------- properties ---------------- *)

Range(q) == {q[i] : i \in DOMAIN q}
Last(q) == q[Len(q)]
Front(q) == SubSeq(q, 1, Len(q) - 1)

\* the handles whose marker in the marker map is not destroyed
LiveMarkers ==
    {h \in DOMAIN pushpin_root_window_handle :
        ~pushpin_root_window_handle[h].destroyed}

\* the step in which a pin_window that passed its is_pinning guard completes
\* (each first lets one stop_mouse_hook call return)
PinAttemptCompletes == lastOp'.op = "pin_window" /\ epoch' = epoch + 1

\* C1: once pin_window has run for a click of the current arming on a window
\* that is not the application's own and has a title (the marker image being
\* loadable), that window is in the registry, is topmost, and has a live
\* marker in the marker map.
C1_PinSucceeds ==
    (/\ lastOp.op = "pin_window"
     /\ ~lastOp.stale
     /\ lastOp.image
     /\ Pinnable(lastOp.root))
    => /\ lastOp.root \in Range(pinned_windows)
       /\ lastOp.root \in topmost
       /\ lastOp.root \in LiveMarkers

\* C2: an unpin that follows pins not yet unpinned finds the most recently
\* pinned window as the last registry entry, removes that entry, removes its
\* marker from the marker map and leaves the window non-topmost.
C2_UnpinRemovesMostRecent ==
    (lastOp.op = "unpin_window" /\ lastOp.hist # <<>>)
    => /\ lastOp.pre # <<>>
       /\ Last(lastOp.pre) = Last(lastOp.hist)
       /\ pinned_windows = Front(lastOp.pre)
       /\ Last(lastOp.hist) \notin DOMAIN pushpin_root_window_handle
       /\ Last(lastOp.hist) \notin topmost

\* C3: the registry never holds the same window handle twice.
C3_NoDuplicateHandles ==
    \A i, j \in DOMAIN pinned_windows :
        pinned_windows[i] = pinned_windows[j] => i = j

\* pin_window has just run on a pinnable window it had already been run on
C3_PinnedAgain ==
    /\ lastOp.op = "pin_window"
    /\ Pinnable(lastOp.root)
    /\ lastOp.root \in Range(lastOp.hist)

\* C4: a handle is in the registry exactly when the marker map holds a
\* marker for it that is not destroyed.
C4_RegistryMatchesMarkers == Range(pinned_windows) = LiveMarkers

\* pin_window has just run on a pinnable window while the marker's image
\* cannot be loaded
C4_PinWithoutImage ==
    /\ lastOp.op = "pin_window"
    /\ Pinnable(lastOp.root)
    /\ ~lastOp.image

\* C5: a handle is in the registry exactly when this program has set the
\* window topmost and has not restored it since.
C5_RegistryIffTopmost == Range(pinned_windows) = topmost

\* unpin_window has just run after pin_window had run on a pinnable window
C5_UnpinAfterPin ==
    /\ lastOp.op = "unpin_window"
    /\ lastOp.hist # <<>>
    /\ msg = "warn_none_pinned"

\* C6: unpin is LIFO over the successful pins: after an unpin the registry
\* is the sequence of windows pinned and not yet unpinned, less its last one
\* (pin A, pin B, unpin leaves exactly A).
C6_UnpinIsLIFO ==
    (lastOp.op = "unpin_window" /\ lastOp.hist # <<>>)
    => pinned_windows = Front(lastOp.hist)

C8_NoDeliveryAfterStop == lastOp.op = "pin_window" => ~lastOp.stale

\* C9: when stop_mouse_hook returns, the hook thread has terminated and no
\* pointer hook is installed.
C9_StopLeavesNoHook ==
    [][epoch' = epoch + 1 => (~is_alive' /\ ~os_hook')]_vars

\* C10: a pin attempt that resolves to the application's own window shows
\* the warning, leaves the registry, the marker map and every z-order alone,
\* makes no z-order call, and ends Idle with no pointer hook installed.
C10_OwnWindowRejected ==
    [][(PinAttemptCompletes /\ lastOp'.root = Own)
        => /\ msg' = "warn_select_other"
           /\ pinned_windows' = pinned_windows
           /\ pushpin_root_window_handle' = pushpin_root_window_handle
           /\ topmost' = topmost
           /\ lastOp'.z = 0
           /\ ~is_pinning'
           /\ ~os_hook']_vars

\* C11: a pin attempt whose click point resolves to no window shows the
\* warning and leaves the registry and the marker map as they were.
C11_NoWindowRejected ==
    [][(PinAttemptCompletes /\ lastOp'.root = Null)
        => /\ msg' = "warn_select_other"
           /\ pinned_windows' = pinned_windows
           /\ pushpin_root_window_handle' = pushpin_root_window_handle]_vars

\* pin_window has just run with no window under the cursor
C11_PinOnNoWindow ==
    /\ lastOp.op = "pin_window"
    /\ lastOp.root = Null
    /\ ~lastOp.stale

\* C12: unpin with an empty registry shows the warning and no error, makes
\* no z-order call, and leaves the registry, the marker map, the z-order
\* and the arm/idle mode as they were.
C12_UnpinOnEmptyRegistry ==
    [][(lastOp' # lastOp /\ lastOp'.op = "unpin_window" /\ lastOp'.pre = <<>>)
        => /\ msg' = "warn_none_pinned"
           /\ lastOp'.z = 0
           /\ pinned_windows' = pinned_windows
           /\ pushpin_root_window_handle' = pushpin_root_window_handle
           /\ topmost' = topmost
           /\ is_pinning' = is_pinning]_vars

\* unpin_window has just run, armed, on a registry that was empty
C12_UnpinWhileArmed ==
    /\ lastOp.op = "unpin_window"
    /\ lastOp.pre = <<>>
    /\ is_pinning

\* C13: once a failed hook installation has been recorded (self.hook is a
\* null hook), the controller is Idle and no hook thread is left alive.
C13_FailedInstallEndsIdle ==
    hook = "NULL" => (~is_pinning /\ ~is_alive)

C15_PinAgainIsNoOp ==
    [][(PinAttemptCompletes /\ Pinnable(lastOp'.root) /\ lastOp'.image
          /\ lastOp'.root \in Range(lastOp'.hist))
        => /\ pinned_windows' = pinned_windows
           /\ pushpin_root_window_handle' = pushpin_root_window_handle
           /\ msg' # "error_pin"]_vars

\* C16: no step of the hook thread changes the registry, the marker map,
\* the z-order or the record of handlers run; a press only hands one
\* pin_window callback to the UI thread's queue, and every pin attempt is
\* made by the UI thread, from its queue or after its join.
C16_HookThreadOnlySchedules ==
    [][/\ (hookpc' # hookpc /\ hookpc' # "start")
            => UNCHANGED <<objVars, lastOp, pin_history, is_pinning>>
       /\ (hookpc = "loop" /\ hookpc' = "after") => after_queue' = after_queue
       /\ (hookpc = "after" /\ hookpc' = "loop")
            => after_queue' = Append(after_queue, click_epoch)
       /\ (lastOp' # lastOp /\ lastOp'.op = "pin_window")
            => \/ after_queue # <<>> /\ after_queue' = Tail(after_queue)
               \/ uipc = "join" /\ cur.op = "pin_window"
      ]_vars

\* the hook thread is inside its callback for the second press of a
\* double-click, handing it over while the first is still queued
C16_PressBeingHandedOver ==
    /\ hookpc = "after"
    /\ after_queue # <<>>
    /\ is_pinning

\* C17: while the application runs, every window that pin_window was run on
\* as a pinnable window, that has not been unpinned and that still exists
\* has a live marker with its next position sync scheduled.
C17_MarkerStaysAlive ==
    uipc \in {"mainloop", "join"}
        => \A h \in Range(pin_history) \cap alive :
              /\ h \in LiveMarkers
              /\ pushpin_root_window_handle[h].scheduled

C19_CancelReturnsToIdle ==
    [][(lastOp'.op = "stop_pin_process" /\ epoch' = epoch + 1)
        => /\ ~is_pinning'
           /\ ~os_hook' /\ ~is_alive'
           /\ UNCHANGED <<pinned_windows, pushpin_root_window_handle, topmost>>
      ]_vars

\* C20: whenever the UI thread is blocked in hook_thread.join(), the hook
\* thread has ended or can retrieve the quit message and end; the two
\* threads never wait on each other.
C20_JoinCanReturn ==
    uipc = "join" => (hookpc = "done" \/ ENABLED HookThreadQuit)

====
